---- MODULE Spec2Model ----
(***************************************************************************)
(* Model of src/main.py: the Flask handler webex_webhook with its helpers  *)
(* get_message_text, send_webex_message and send_to_splunk, and the        *)
(* startup routine create_webex_webhook run against the Webex platform.    *)
(*                                                                         *)
(* A string is a sequence of fragments; the characters the code inspects   *)
(* (strip, lower, capitalize) are one-character fragments.                 *)
(***************************************************************************)
EXTENDS Integers, Sequences, FiniteSets, TLC

VARIABLES pc, request, message_text, crop_data, response_text, calls,
          file_reads, http, exc,
          hooks, rpc, webhooks, rlog

hvars == <<pc, request, message_text, crop_data, response_text, calls,
           file_reads, http, exc>>
rvars == <<hooks, rpc, webhooks, rlog>>
vars == <<pc, request, message_text, crop_data, response_text, calls,
          file_reads, http, exc, hooks, rpc, webhooks, rlog>>

\* ------------------------------------------------------------------ bounds
MaxLen == 3
NumCalls == 2

\* --------------------------------------------------------------- constants
\* Python's None, for the values the handler reads with .get()
None == "<None>"
\* os.getenv("BOT_EMAIL")
BOT_EMAIL == "bot@example.com"
\* the name create_webex_webhook looks for and registers
WebhookName == "Agriculture Webex Webhook"
OtherName == "Some other webhook"

\* ----------------------------------------------------------------- strings
Alphabet == {"c", "C", " "}

RECURSIVE StringsOfLen(_)
StringsOfLen(n) ==
    IF n = 0 THEN {<<>>}
    ELSE {Append(s, ch) : s \in StringsOfLen(n - 1), ch \in Alphabet}

Texts == UNION {StringsOfLen(n) : n \in 0..MaxLen}

\* str.lower() on one character
LowerChar(ch) == CASE ch = "C" -> "c" [] OTHER -> ch
\* str.upper() on one character
UpperChar(ch) == CASE ch = "c" -> "C" [] OTHER -> ch
IsSpace(ch) == ch = " "

\* the lower-casing left out
lowerIdentity(s) == s

\* str.lower()
lower(s) == [i \in 1..Len(s) |-> LowerChar(s[i])]

RECURSIVE lstrip(_)
lstrip(s) == IF s # <<>> /\ IsSpace(Head(s)) THEN lstrip(Tail(s)) ELSE s

RECURSIVE rstrip(_)
rstrip(s) ==
    IF s # <<>> /\ IsSpace(s[Len(s)]) THEN rstrip(SubSeq(s, 1, Len(s) - 1))
    ELSE s

\* str.strip()
strip(s) == rstrip(lstrip(s))

\* str.capitalize(): first character upper-cased, the rest lower-cased
capitalize(s) ==
    IF s = <<>> THEN s
    ELSE <<UpperChar(s[1])>> \o lower(Tail(s))

\* ------------------------------------------------------------- JSON values
JStr(s) == [kind |-> "str", val |-> s]
JNone == [kind |-> "none", val |-> <<>>]
JOther(truthy) ==
    [kind |-> IF truthy THEN "other_truthy" ELSE "other_falsy", val |-> <<>>]

\* "if message_text is not None" in place of "if message_text"
TruthyNotNone(v) == v.kind # "none"

\* Python truthiness of a decoded JSON value ("if message_text:")
Truthy(v) == \/ v.kind = "other_truthy"
             \/ v.kind = "str" /\ v.val # <<>>

\* the "text" member a 200 response of GET /messages/{id} can carry
TextValues == {JNone, JOther(TRUE), JOther(FALSE)} \cup {JStr(s) : s \in Texts}

\* ---------------------------------------------------------------- payloads
\* "not x" for the values data.get(...) yields
Falsy(x) == x \in {None, ""}

BodyKinds == {"nonobject", "object"}
DataKinds == {"absent", "nonobject", "object"}
Payloads ==
    [body : BodyKinds, data : DataKinds,
     id : {None, "", "m1"}, roomId : {None, "", "r1"},
     personEmail : {None, "", BOT_EMAIL, "farmer@example.com"}]

\* a payload as it is on the wire: members exist only inside an object
WellFormed(p) ==
    /\ p.body = "nonobject" => p.data = "absent"
    /\ p.data # "object" =>
          p.id = None /\ p.roomId = None /\ p.personEmail = None

NoRequest ==
    [body |-> "object", data |-> "absent", id |-> None, roomId |-> None,
     personEmail |-> None]

\* ------------------------------------------------------------- crops.json
Entry(k, d) == [key |-> k, desc |-> d]
CropsA == {Entry(<<"c">>, <<"D">>), Entry(<<"c", "c">>, <<"E">>)}
CropsB == {Entry(<<"C">>, <<"F">>), Entry(<<"c", " ", "c">>, <<"G">>),
           Entry(<<>>, <<"H">>)}
CropFiles == {CropsA, CropsB}
FileOutcomes == {"unreadable", "ok"}

HasKey(cd, k) == \E e \in cd : e.key = k
Get(cd, k) == (CHOOSE e \in cd : e.key = k).desc

\* lines 140-147: the reply text for a fetched text and a loaded mapping
ReplyText(text, cd) ==
    LET user_input == lower(strip(text))
    IN  IF HasKey(cd, user_input)
        THEN capitalize(user_input) \o <<" ", "I", "n", "f", "o", ":", " ">>
             \o Get(cd, user_input)
        ELSE <<"Sorry, I don't have data on '">> \o text
             \o <<"'. Try asking about corn, rice, wheat, avocado, or potatoes.">>

\* ---------------------------------------------------------------- responses
NoResponse == [status |-> 0, body |-> ""]
Resp(s, b) == [status |-> s, body |-> b]
Resp400 == Resp(400, "error: Invalid payload received")
RespIgnored == Resp(200, "status: Bot's own message, ignoring")
Resp500 == Resp(500, "error: Could not fetch message")
RespProcessed == Resp(200, "status: Message processed and response sent")

\* one outbound HTTP call: which, to what (message id, room, endpoint),
\* the text it carries and how it ended
Call(op, to, arg, outcome) ==
    [op |-> op, to |-> to, arg |-> arg, outcome |-> outcome]

\* --------------------------------------------------------------- handler
\* Flask dispatches a POST /webex-webhook to the handler
Receive(p) ==
    /\ pc \in {"idle", "done", "raised"}
    /\ WellFormed(p)
    /\ pc' = "validate"
    /\ request' = p
    /\ message_text' = JNone
    /\ crop_data' = {}
    /\ response_text' = <<>>
    /\ calls' = <<>>
    /\ file_reads' = 0
    /\ http' = NoResponse
    /\ exc' = ""
    /\ UNCHANGED rvars

\* the self-message check left out
ValidateResultNoBotCheck(p) ==
    IF p.body # "object" \/ p.data = "nonobject" THEN "raise"
    ELSE IF Falsy(p.id) \/ Falsy(p.roomId) \/ Falsy(p.personEmail)
    THEN "invalid"
    ELSE "fetch"

\* lines 116-127: where extraction, validation and the self-message check
\* lead.  request.json that is not an object, or a "data" member that is
\* not an object, has no .get(): AttributeError
ValidateResult(p) ==
    IF p.body # "object" \/ p.data = "nonobject" THEN "raise"
    ELSE IF Falsy(p.id) \/ Falsy(p.roomId) \/ Falsy(p.personEmail)
    THEN "invalid"
    ELSE IF p.personEmail = BOT_EMAIL THEN "ignored"
    ELSE "fetch"

\* lines 116-127
Validate ==
    /\ pc = "validate"
    /\ LET r == ValidateResult(request)
       IN  /\ pc' = CASE r = "raise" -> "raised"
                      [] r = "fetch" -> "fetch"
                      [] OTHER -> "done"
           /\ exc' = IF r = "raise" THEN "AttributeError" ELSE exc
           /\ http' = CASE r = "invalid" -> Resp400
                        [] r = "ignored" -> RespIgnored
                        [] OTHER -> http
    /\ UNCHANGED <<request, message_text, crop_data, response_text, calls,
                   file_reads>>
    /\ UNCHANGED rvars

FetchOutcomes == {"ok", "non200", "exception", "badjson_caught",
                  "badjson_raised", "nonobject"}

\* the status code left unchecked: the body's text is used whenever the
\* request got an answer
FetchResultAnyStatus(outcome, text) ==
    IF outcome \in {"ok", "non200"} THEN text ELSE JNone

\* lines 102-111: what get_message_text returns
FetchResult(outcome, text) == IF outcome = "ok" THEN text ELSE JNone

\* lines 97-111 and the branch of lines 130-132, 162-163
get_message_text(outcome, text) ==
    /\ pc = "fetch"
    /\ calls' = Append(calls, Call("fetch", request.id, <<>>, outcome))
    /\ IF outcome = "badjson_raised"
       THEN /\ pc' = "raised"
            /\ exc' = "ValueError"
            /\ UNCHANGED <<message_text, http>>
       ELSE IF outcome = "nonobject"
       THEN /\ pc' = "raised"
            /\ exc' = "AttributeError"
            /\ UNCHANGED <<message_text, http>>
       ELSE /\ message_text' = FetchResult(outcome, text)
            /\ exc' = exc
            /\ IF Truthy(message_text')
               THEN pc' = "load_crops" /\ http' = http
               ELSE pc' = "done" /\ http' = Resp500
    /\ UNCHANGED <<request, crop_data, response_text, file_reads>>
    /\ UNCHANGED rvars

\* lines 135-147: read crops.json, normalise the text, build the reply
LoadCrops(outcome, file) ==
    /\ pc = "load_crops"
    /\ file_reads' = file_reads + 1
    /\ IF outcome = "unreadable"
       THEN /\ pc' = "raised"
            /\ exc' = "OSError"
            /\ UNCHANGED <<crop_data, response_text>>
       ELSE IF message_text.kind # "str"
       THEN /\ pc' = "raised"
            /\ exc' = "AttributeError"
            /\ crop_data' = file
            /\ UNCHANGED response_text
       ELSE /\ crop_data' = file
            /\ response_text' = ReplyText(message_text.val, file)
            /\ pc' = "send_reply"
            /\ exc' = exc
    /\ UNCHANGED <<request, message_text, calls, http>>
    /\ UNCHANGED rvars

SendOutcomes == {"ok", "non200", "exception"}

\* the reply sent again after a failure
send_webex_message_retry(outcome) ==
    /\ pc = "send_reply"
    /\ calls' = Append(calls,
                       Call("reply", request.roomId, response_text, outcome))
    /\ pc' = IF outcome # "ok" /\ Len(calls) < 2 THEN "send_reply"
             ELSE "send_splunk"
    /\ UNCHANGED <<request, message_text, crop_data, response_text,
                   file_reads, http, exc>>
    /\ UNCHANGED rvars

\* the try/except around the POST left out
send_webex_message_uncaught(outcome) ==
    /\ pc = "send_reply"
    /\ calls' = Append(calls,
                       Call("reply", request.roomId, response_text, outcome))
    /\ pc' = IF outcome = "exception" THEN "raised" ELSE "send_splunk"
    /\ exc' = IF outcome = "exception" THEN "RequestException" ELSE exc
    /\ UNCHANGED <<request, message_text, crop_data, response_text,
                   file_reads, http>>
    /\ UNCHANGED rvars

\* lines 150, 166-186
send_webex_message(outcome) ==
    /\ pc = "send_reply"
    /\ calls' = Append(calls,
                       Call("reply", request.roomId, response_text, outcome))
    /\ pc' = "send_splunk"
    /\ UNCHANGED <<request, message_text, crop_data, response_text,
                   file_reads, http, exc>>
    /\ UNCHANGED rvars

\* lines 153-161, 30-48
send_to_splunk(outcome) ==
    /\ pc = "send_splunk"
    /\ calls' = Append(calls,
                       Call("audit", "splunk", message_text.val, outcome))
    /\ pc' = "done"
    /\ http' = RespProcessed
    /\ UNCHANGED <<request, message_text, crop_data, response_text,
                   file_reads, exc>>
    /\ UNCHANGED rvars

HInit ==
    /\ pc = "idle"
    /\ request = NoRequest
    /\ message_text = JNone
    /\ crop_data = {}
    /\ response_text = <<>>
    /\ calls = <<>>
    /\ file_reads = 0
    /\ http = NoResponse
    /\ exc = ""

RInit0 ==
    /\ hooks = <<>>
    /\ rpc = [i \in 1..NumCalls |-> "idle"]
    /\ webhooks = [i \in 1..NumCalls |-> <<>>]
    /\ rlog = <<>>

Init == HInit /\ RInit0

Next ==
    \/ \E p \in Payloads : Receive(p)
    \/ Validate
    \/ \E o \in FetchOutcomes, t \in TextValues : get_message_text(o, t)
    \/ \E o \in FileOutcomes, f \in CropFiles : LoadCrops(o, f)
    \/ \E o \in SendOutcomes : send_webex_message(o)
    \/ \E o \in SendOutcomes : send_to_splunk(o)

Spec == Init /\ [][Next]_vars

\* ------------------------------------------------- webhook registration
\* the scan returning after the first listed registration
AlreadyExistsFirstOnly(items) ==
    items # <<>> /\ items[1] = WebhookName

\* lines 64-67: the scan of the listed registrations for the name
AlreadyExists(items) ==
    \E k \in 1..Len(items) : items[k] = WebhookName

ListOutcomes == {"ok", "non200", "exception", "malformed"}

\* lines 54-67, 91-94: list the registrations and scan them
ListWebhooks(i, outcome) ==
    /\ rpc[i] = "idle"
    /\ rlog' = Append(rlog, [inst |-> i, op |-> "list", outcome |-> outcome])
    /\ webhooks' = [webhooks EXCEPT ![i] =
                        IF outcome = "ok" THEN hooks ELSE <<>>]
    /\ rpc' = [rpc EXCEPT ![i] =
                  IF outcome = "malformed" THEN "raised"
                  ELSE IF outcome = "ok" /\ ~AlreadyExists(webhooks'[i])
                  THEN "create"
                  ELSE "done"]
    /\ UNCHANGED hooks
    /\ UNCHANGED hvars

\* what the platform and the caller can make of one POST /webhooks:
\* answered 200, refused, lost before the platform acted, or timed out
\* after the platform had stored the registration
CreateOutcomes == {"created", "non200", "exception", "timeout_stored"}
Stored(outcome) == outcome \in {"created", "timeout_stored"}

\* lines 69-90, 93-94: POST the registration
CreateWebhook(i, outcome) ==
    /\ rpc[i] = "create"
    /\ rlog' = Append(rlog, [inst |-> i, op |-> "create", outcome |-> outcome])
    /\ hooks' = IF Stored(outcome) THEN Append(hooks, WebhookName) ELSE hooks
    /\ rpc' = [rpc EXCEPT ![i] = "done"]
    /\ UNCHANGED webhooks
    /\ UNCHANGED hvars

Finished(i) == rpc[i] \in {"done", "raised"}

\* one call of create_webex_webhook after the other (lines 189-195, run twice)
create_webex_webhook_seq(i) ==
    /\ \A j \in 1..(i - 1) : Finished(j)
    /\ \/ \E o \in ListOutcomes : ListWebhooks(i, o)
       \/ \E o \in CreateOutcomes : CreateWebhook(i, o)

\* instances of the process started independently of each other
create_webex_webhook(i) ==
    \/ \E o \in ListOutcomes : ListWebhooks(i, o)
    \/ \E o \in CreateOutcomes : CreateWebhook(i, o)

\* registrations the platform may hold before the program first runs
InitialHooks == {<<>>, <<OtherName>>, <<WebhookName>>,
                 <<OtherName, WebhookName>>}

RegInit ==
    /\ HInit
    /\ hooks \in InitialHooks
    /\ rpc = [i \in 1..NumCalls |-> "idle"]
    /\ webhooks = [i \in 1..NumCalls |-> <<>>]
    /\ rlog = <<>>

RegNext == \E i \in 1..NumCalls : create_webex_webhook_seq(i)

SpecReg == RegInit /\ [][RegNext]_vars

ConcNext == \E i \in 1..NumCalls : create_webex_webhook(i)

SpecConc == RegInit /\ [][ConcNext]_vars

\* =================================================================== claims
Finished_h == pc \in {"done", "raised"}
Ops == [i \in 1..Len(calls) |-> calls[i].op]
CallOrder == <<"fetch", "reply", "audit">>
FieldMissing(p) == p.id = None \/ p.roomId = None \/ p.personEmail = None

\* C1: every request in which data.id, data.roomId or data.personEmail is
\* missing ends with the 400 response, with no outbound call and no read of
\* crops.json.
C1_MissingFieldGives400 ==
    (Finished_h /\ FieldMissing(request)) =>
        (pc = "done" /\ http = Resp400 /\ calls = <<>> /\ file_reads = 0)

\* C2 as stated: every request whose sender email is BOT_EMAIL ends with the
\* 200 ignored response and no outbound call.
C2_BotSenderAlwaysIgnored ==
    (Finished_h /\ request.personEmail = BOT_EMAIL) =>
        (http = RespIgnored /\ calls = <<>>)

\* C2 amended: every request that carries a non-empty data.id and
\* data.roomId and whose sender email is BOT_EMAIL ends with the 200 ignored
\* response; and no request whose sender is BOT_EMAIL makes an outbound call
\* or reads crops.json at any point.
C2_BotSenderIgnored ==
    /\ (Finished_h /\ request.personEmail = BOT_EMAIL
          /\ ~Falsy(request.id) /\ ~Falsy(request.roomId)) =>
            (pc = "done" /\ http = RespIgnored)
    /\ (pc # "idle" /\ request.personEmail = BOT_EMAIL) =>
            (calls = <<>> /\ file_reads = 0 /\ pc \in {"validate", "done"})

C2_Witness ==
    /\ pc = "done"
    /\ request.personEmail = BOT_EMAIL
    /\ request.id = "m1" /\ request.roomId = "r1"
    /\ http = RespIgnored

\* C3: when the message fetch ends with a non-200 status or a network
\* exception, the request ends with the 500 response and the fetch is the only
\* outbound call: no reply and no audit record.
C3_FetchFailureGives500 ==
    (calls # <<>> /\ calls[1].outcome \in {"non200", "exception"}) =>
        /\ pc = "done"
        /\ http = Resp500
        /\ Ops = <<"fetch">>
        /\ file_reads = 0

C3_Witness ==
    /\ pc = "done"
    /\ Len(calls) = 1
    /\ calls[1].op = "fetch" /\ calls[1].outcome = "exception"
    /\ http = Resp500

\* C5: no request ends with an exception leaving the handler.
C5_NoExceptionEscapes == pc # "raised"

IsTrimmedLowerOf(k, t) ==
    \E a, b \in 0..Len(t) :
        /\ a + b <= Len(t)
        /\ \A i \in 1..a : IsSpace(t[i])
        /\ \A i \in (Len(t) - b + 1)..Len(t) : IsSpace(t[i])
        /\ LET m == SubSeq(t, a + 1, Len(t) - b)
           IN  /\ m # <<>> => ~IsSpace(m[1]) /\ ~IsSpace(m[Len(m)])
               /\ m = <<>> => a + b = Len(t)
               /\ Len(k) = Len(m)
               /\ \A i \in 1..Len(m) : k[i] = LowerChar(m[i])

FirstUpper(k) ==
    [i \in 1..Len(k) |-> IF i = 1 THEN UpperChar(k[i]) ELSE k[i]]

InfoReply(k, d) == FirstUpper(k) \o <<" ", "I", "n", "f", "o", ":", " ">> \o d

\* C7: the text of every reply call is the capitalised key, " Info: " and
\* the stored description when the trimmed, lower-cased fetched text is a key
\* of the mapping read from crops.json, and the apology around the fetched
\* text otherwise; " C " against {"c": "D"} gives "C Info: D".
C7_ReplyText ==
    \A n \in 1..Len(calls) :
        calls[n].op = "reply" =>
            LET t == message_text.val
                hits == {e \in crop_data : IsTrimmedLowerOf(e.key, t)}
            IN  /\ \A e \in hits : calls[n].arg = InfoReply(e.key, e.desc)
                /\ hits = {} =>
                     /\ Len(calls[n].arg) = Len(t) + 2
                     /\ calls[n].arg[1] = "Sorry, I don't have data on '"
                     /\ SubSeq(calls[n].arg, 2, Len(t) + 1) = t
                     /\ \A e \in crop_data, x \in Texts :
                           calls[n].arg # InfoReply(x, e.desc)
                /\ (t = <<" ", "C", " ">> /\ crop_data = CropsA) =>
                     calls[n].arg =
                        <<"C", " ", "I", "n", "f", "o", ":", " ", "D">>

C7_Witness ==
    /\ Len(calls) >= 2
    /\ calls[2].op = "reply"
    /\ message_text.val = <<" ", "C">>
    /\ crop_data = CropsA
    /\ calls[2].arg = <<"C", " ", "I", "n", "f", "o", ":", " ", "D">>

\* C8: within one request the outbound calls are a prefix of <fetch, reply,
\* audit>, each made at most once, the reply only after a fetch that
\* succeeded, and once the response is set no further call is made for that
\* request.
C8_CallOrder ==
    /\ [](/\ Len(calls) <= 3
          /\ \A i \in 1..Len(calls) : calls[i].op = CallOrder[i]
          /\ Len(calls) >= 2 => calls[1].outcome = "ok"
          /\ http # NoResponse => pc = "done")
    /\ [][(http # NoResponse /\ pc' # "validate") => calls' = calls]_vars

C8_Witness ==
    /\ pc = "done"
    /\ Ops = CallOrder
    /\ http = RespProcessed

\* C10: the 200 processed response is given only for a fetched text that is
\* not empty; a fetch answered 200 whose text is absent or empty ends with
\* the 500 response and neither a reply nor an audit record.
C10_EmptyTextGives500 ==
    /\ http = RespProcessed =>
          (message_text.kind = "str" /\ message_text.val # <<>>)
    /\ (calls # <<>> /\ calls[1].outcome = "ok" /\ pc # "fetch"
          /\ message_text \in {JNone, JStr(<<>>)}) =>
            /\ pc = "done"
            /\ http = Resp500
            /\ Ops = <<"fetch">>

C10_Witness ==
    /\ pc = "done"
    /\ Len(calls) = 1
    /\ calls[1].outcome = "ok"
    /\ message_text = JStr(<<>>)
    /\ http = Resp500

AllFinished == \A i \in 1..NumCalls : Finished(i)
Creates == {k \in 1..Len(rlog) : rlog[k].op = "create"}
Registered == {k \in 1..Len(hooks) : hooks[k] = WebhookName}

\* C4 as stated: after the calls made in sequence have all returned, exactly
\* one create call has been made.
C4_ExactlyOneCreate == AllFinished => Cardinality(Creates) = 1

\* C4 amended: when the first call issues a create (the platform held no
\* registration of the name and the list was answered 200) and that create
\* takes effect on the platform, the calls made in sequence make exactly one
\* create call between them, whatever the later list calls return.
C4_OneCreateOnceStored ==
    (AllFinished /\ \E k \in Creates :
                        rlog[k].inst = 1 /\ Stored(rlog[k].outcome)) =>
        Cardinality(Creates) = 1

C4_Witness ==
    /\ AllFinished
    /\ Len(rlog) = 3
    /\ rlog[2].inst = 1 /\ rlog[2].op = "create" /\ Stored(rlog[2].outcome)
    /\ rlog[3].inst = 2 /\ rlog[3].op = "list" /\ rlog[3].outcome = "ok"
    /\ Len(hooks) = 2

\* C9: the platform never holds more than one registration named
\* "Agriculture Webex Webhook".
C9_AtMostOneRegistration == Cardinality(Registered) <= 1

TypeOK == pc \in {"idle", "validate", "fetch", "load_crops", "send_reply",
                  "send_splunk", "done", "raised"}
====
